---- MODULE Spec2Model ----
(***************************************************************************)
(* Model of src/github_checker_api.py: the entry parser (parse_entries),   *)
(* the single-item classifier (check_email) and the batch checker          *)
(* (check_emails_batch).                                                   *)
(*                                                                         *)
(* Three specifications share the module's variables:                      *)
(*   SpecParse    - parse_entries applied to every text over Chars of      *)
(*                  length <= MaxTextLen;                                   *)
(*   SpecClassify - check_email applied to every scripted page session;    *)
(*   Spec         - one run of check_emails_batch, one action per          *)
(*                  statement/await of the function.                       *)
(* Raised failures are instances of Exception (what Playwright and the     *)
(* callback raise); BaseException-only signals such as task cancellation   *)
(* are outside the model.                                                  *)
(***************************************************************************)
EXTENDS Integers, Sequences, FiniteSets, TLC

VARIABLES
    \* ---- parse_entries
    text,               \* the argument `text`, a sequence of characters
    parsed,             \* the returned list of (email, full_line)
    \* ---- check_email
    session,            \* the scripted behaviour of `page` for one call
    verdict,            \* what check_email did: [ret, at]
    \* ---- check_emails_batch
    entries,            \* the argument `entries`
    progress_callback,  \* TRUE when a callback is supplied, FALSE for None
    delay,              \* the argument `delay`, in tenths of a second
    pc,                 \* position in the function being run
    i,                  \* loop index of enumerate(entries, 1)
    result,             \* label returned by the last check_email call
    results,            \* the dict of four buckets
    browser,            \* "none" | "open" | "closed"
    closeCalls,         \* number of browser.close() calls made
    cbLog,              \* arguments of every progress_callback invocation
    sleepCount,         \* number of asyncio.sleep calls made
    lastSleep,          \* argument of the last asyncio.sleep call (tenths)
    trace,              \* history of the loop's operations, in order
    outcome             \* "running" | "returned" | "raised"

parseVars == <<text, parsed>>
classifyVars == <<session, verdict>>
batchData == <<entries, progress_callback, delay, i, result, results,
               browser, closeCalls, cbLog, sleepCount, lastSleep, trace, outcome>>
vars == <<text, parsed, session, verdict, entries, progress_callback, delay,
          pc, i, result, results, browser, closeCalls, cbLog, sleepCount,
          lastSleep, trace, outcome>>

----------------------------------------------------------------------------
(* Bounds *)

MaxTextLen == 5
MaxEntries == 3

----------------------------------------------------------------------------
(* Strings as sequences of one-character strings *)

Chars == {"a", "@", ":", "#", " ", "\n"}

\* str.isspace for the modelled alphabet
IsSpace(c) == c \in {" ", "\n"}

RECURSIVE lstrip(_)
lstrip(s) ==
    IF s = <<>> THEN <<>>
    ELSE IF IsSpace(Head(s)) THEN lstrip(Tail(s))
    ELSE s

RECURSIVE rstrip(_)
rstrip(s) ==
    IF s = <<>> THEN <<>>
    ELSE IF IsSpace(s[Len(s)]) THEN rstrip(SubSeq(s, 1, Len(s) - 1))
    ELSE s

\* str.strip()
strip(s) == rstrip(lstrip(s))

\* index of the first element of s satisfying c = ch, 0 when there is none
RECURSIVE FindFrom(_, _, _)
FindFrom(s, ch, k) ==
    IF k > Len(s) THEN 0
    ELSE IF s[k] = ch THEN k
    ELSE FindFrom(s, ch, k + 1)

\* `ch in s`
Contains(s, ch) == FindFrom(s, ch, 1) # 0

\* str.splitlines() ("\n" is the alphabet's only line boundary): no trailing
\* empty line, "" gives []
RECURSIVE splitlines(_)
splitlines(s) ==
    IF s = <<>> THEN <<>>
    ELSE LET k == FindFrom(s, "\n", 1) IN
         IF k = 0 THEN <<s>>
         ELSE <<SubSeq(s, 1, k - 1)>> \o splitlines(SubSeq(s, k + 1, Len(s)))

\* s.split(ch)[0]
SplitFirst(s, ch) ==
    LET k == FindFrom(s, ch, 1) IN
    IF k = 0 THEN s ELSE SubSeq(s, 1, k - 1)

\* s.startswith(ch)
startswith(s, ch) == s # <<>> /\ s[1] = ch

----------------------------------------------------------------------------
(* parse_entries *)

\* the mutated candidate address: the whole line even when it holds ":"
CandidateKeepsSuffix(line) == strip(line)

\* lines 85-88: the candidate address of a trimmed line
Candidate(line) ==
    IF Contains(line, ":") THEN strip(SplitFirst(line, ":")) ELSE strip(line)

\* lines 80-91: the loop over the lines, `acc` is the list `entries`
RECURSIVE ParseLoop(_, _)
ParseLoop(lines, acc) ==
    IF lines = <<>> THEN acc
    ELSE LET line == strip(Head(lines))
             email == Candidate(line)
         IN  IF line = <<>> \/ startswith(line, "#")
             THEN ParseLoop(Tail(lines), acc)
             ELSE IF Contains(email, "@")
                  THEN ParseLoop(Tail(lines), Append(acc, <<email, line>>))
                  ELSE ParseLoop(Tail(lines), acc)

parse_entries(t) == ParseLoop(splitlines(strip(t)), <<>>)

\* every text over Chars of length <= MaxTextLen
Texts == UNION {[1..n -> Chars] : n \in 0..MaxTextLen}

\* one call parse_entries(text)
ParseEntries ==
    /\ pc = "parse_call"
    /\ parsed' = parse_entries(text)
    /\ pc' = "parse_done"
    /\ UNCHANGED <<text, classifyVars, batchData>>

----------------------------------------------------------------------------
(* check_email *)

Labels == {"registered", "available", "invalid", "error"}

\* the awaited page operations of lines 22-47, in program order
Steps == <<"goto", "settle", "wait_for", "fill", "type", "pause", "press",
           "validation_wait", "content", "query_selector_all">>

StepNames == {Steps[k] : k \in 1..Len(Steps)}

\* pieces of text a rendered signup page may hold, in the page's own casing
Fragments == {"Already Associated", "already been taken", "Not a Valid Email",
              "NOT VALID", "Welcome"}

\* str.lower() on a fragment
lower(f) ==
    CASE f = "Already Associated" -> "already associated"
      [] f = "already been taken" -> "already been taken"
      [] f = "Not a Valid Email"  -> "not a valid email"
      [] f = "NOT VALID"          -> "not valid"
      [] f = "Welcome"            -> "welcome"

\* line 40: content.lower()
content_lower(content) == {lower(f) : f \in content}

\* `phrase in content_lower`
InText(phrase, lowered) == phrase \in lowered

\* what `page` does in one call: the step that raises when it is executed
\* ("none": no step raises), the page's text, the number of elements the
\* success selector matches, and what the password field's is_visible() does
Sessions ==
    [failAt     : StepNames \cup {"none"},
     content    : SUBSET Fragments,
     success_el : 0..1,
     pwd        : {"visible", "hidden", "raises"}]

Return(label) == [ret |-> label, at |-> "none"]
Raise(step) == [ret |-> "raise", at |-> step]

\* lines 54-59: the inner try; an exception of is_visible() is passed over
PasswordVisible(s) == s.pwd = "visible"

\* the mutated rule order: the success indicator is looked at before the text
ClassifySuccessFirst(s) ==
    LET lowered == content_lower(s.content) IN
    IF s.failAt = "query_selector_all" THEN Raise("query_selector_all")
    ELSE IF s.success_el > 0 THEN Return("available")
    ELSE IF InText("already associated", lowered) \/ InText("already been taken", lowered)
    THEN Return("registered")
    ELSE IF PasswordVisible(s) THEN Return("available")
    ELSE IF InText("not a valid email", lowered) \/ InText("not valid", lowered)
    THEN Return("invalid")
    ELSE Return("error")

\* lines 40-66: the classification of the page once its content was read
Classify(s) ==
    LET lowered == content_lower(s.content) IN
    IF InText("already associated", lowered) \/ InText("already been taken", lowered)
    THEN Return("registered")
    ELSE IF s.failAt = "query_selector_all" THEN Raise("query_selector_all")
    ELSE IF s.success_el > 0 THEN Return("available")
    ELSE IF PasswordVisible(s) THEN Return("available")
    ELSE IF InText("not a valid email", lowered) \/ InText("not valid", lowered)
    THEN Return("invalid")
    ELSE Return("error")

\* lines 21-66: the body of the try block
TryBody(s) ==
    IF s.failAt \in StepNames \ {"query_selector_all"}
    THEN Raise(s.failAt)
    ELSE Classify(s)

\* the mutated function: no except clause, the exception leaves check_email
check_email_no_except(s) == TryBody(s)

\* lines 15-70: the except clause turns every exception into "error";
\* `at` keeps the step that raised
check_email(s) ==
    LET r == TryBody(s) IN
    IF r.ret = "raise" THEN [ret |-> "error", at |-> r.at] ELSE r

\* one call check_email(page, email) against the scripted session
CheckEmailCall ==
    /\ pc = "classify_call"
    /\ verdict' = check_email(session)
    /\ pc' = "classify_done"
    /\ UNCHANGED <<session, parseVars, batchData>>

----------------------------------------------------------------------------
(* check_emails_batch *)

\* line 99: the default of `delay`, in tenths of a second
DefaultDelay == 20

\* line 154: the ends of random.uniform(0.5, 1.5), in tenths of a second
JitterMin == 5
JitterMax == 15

Delays == {0, DefaultDelay}
Jitters == {JitterMin, JitterMax}

\* (email, full_line) pairs as parse_entries produces them
EntryPool == {<<"a@x.com", "a@x.com:pw">>, <<"b@y.org", "b@y.org">>}

EntryLists == UNION {[1..n -> EntryPool] : n \in 0..MaxEntries}

\* lines 106-111
EmptyResults ==
    [registered |-> <<>>, available |-> <<>>, invalid |-> <<>>, error |-> <<>>]

total == Len(entries)

\* one entry of `trace`: the operation, the loop index it belongs to, and for
\* a check_email call the label it returned
Event(op, k) == [op |-> op, i |-> k, label |-> "-"]
CheckEvent(k, label) == [op |-> "check", i |-> k, label |-> label]

\* the mutated handler: the failed step's iteration is run again
OnLoopExceptionRetry == "callback"

\* the mutated handler: the exception is caught per entry and the loop goes on
OnLoopExceptionContinue == "for"

\* lines 137, 157: where an exception raised inside the try block goes
OnLoopException == "except"

\* an exception raised by a statement outside the try block leaves
\* check_emails_batch
Propagate(op) ==
    /\ outcome' = "raised"
    /\ pc' = "done"
    /\ trace' = Append(trace, Event(op, 0))

\* line 115: entering `async with async_playwright()`
StartPlaywright ==
    /\ pc = "async_with"
    /\ \/ pc' = "launch" /\ UNCHANGED <<outcome, trace>>
       \/ Propagate("start_raised")
    /\ UNCHANGED <<parseVars, classifyVars, entries, progress_callback, delay, i,
                   result, results, browser, closeCalls, cbLog, sleepCount,
                   lastSleep>>

\* lines 116-123: p.chromium.launch
Launch ==
    /\ pc = "launch"
    /\ \/ pc' = "new_context" /\ browser' = "open" /\ UNCHANGED <<outcome, trace>>
       \/ Propagate("launch_raised") /\ UNCHANGED browser
    /\ UNCHANGED <<parseVars, classifyVars, entries, progress_callback, delay, i,
                   result, results, closeCalls, cbLog, sleepCount, lastSleep>>

\* lines 125-128: browser.new_context; it succeeds, or its exception leaves
\* the function (the try block of line 137 is not entered yet)
NewContext ==
    /\ pc = "new_context"
    /\ \/ pc' = "add_init_script" /\ UNCHANGED <<outcome, trace>>
       \/ Propagate("new_context_raised")
    /\ UNCHANGED <<parseVars, classifyVars, entries, progress_callback, delay, i,
                   result, results, browser, closeCalls, cbLog, sleepCount,
                   lastSleep>>

\* lines 131-133: context.add_init_script, outside the try block as well
AddInitScript ==
    /\ pc = "add_init_script"
    /\ \/ pc' = "new_page" /\ UNCHANGED <<outcome, trace>>
       \/ Propagate("add_init_script_raised")
    /\ UNCHANGED <<parseVars, classifyVars, entries, progress_callback, delay, i,
                   result, results, browser, closeCalls, cbLog, sleepCount,
                   lastSleep>>

\* line 135: context.new_page, outside the try block as well; the try block
\* of line 137 follows
NewPage ==
    /\ pc = "new_page"
    /\ \/ pc' = "for" /\ UNCHANGED <<outcome, trace>>
       \/ Propagate("new_page_raised")
    /\ UNCHANGED <<parseVars, classifyVars, entries, progress_callback, delay, i,
                   result, results, browser, closeCalls, cbLog, sleepCount,
                   lastSleep>>

\* line 138: the head of `for i, (email, full_line) in enumerate(entries, 1)`
ForNext ==
    /\ pc = "for"
    /\ IF i < total
       THEN i' = i + 1 /\ pc' = "check_email"
       ELSE i' = i /\ pc' = "finally"
    /\ UNCHANGED <<parseVars, classifyVars, entries, progress_callback, delay,
                   result, results, browser, closeCalls, cbLog, sleepCount,
                   lastSleep, trace, outcome>>

\* line 139: result = await check_email(page, email); an exception that left
\* check_email would be caught at line 157
CheckEmail ==
    /\ pc = "check_email"
    /\ \E r \in {check_email(s) : s \in Sessions} :
         IF r.ret = "raise"
         THEN /\ pc' = OnLoopException
              /\ trace' = Append(trace, Event("check_raised", i))
              /\ UNCHANGED result
         ELSE /\ pc' = "append"
              /\ trace' = Append(trace, CheckEvent(i, r.ret))
              /\ result' = r.ret
    /\ UNCHANGED <<parseVars, classifyVars, entries, progress_callback, delay, i,
                   results, browser, closeCalls, cbLog, sleepCount, lastSleep,
                   outcome>>

\* lines 141-144: the bucket a label goes to
Bucket(label) == IF label \in DOMAIN results THEN label ELSE "error"

\* the mutated append: the line is put in the bucket twice
AppendLineTwice(bucket, line) == bucket \o <<line, line>>

\* lines 142, 144: list.append(full_line)
AppendLine(bucket, line) == Append(bucket, line)

\* lines 141-146: append full_line to its bucket
AppendResult ==
    /\ pc = "append"
    /\ results' = [results EXCEPT ![Bucket(result)] = AppendLine(@, entries[i][2])]
    /\ trace' = Append(trace, Event("append", i))
    /\ pc' = IF progress_callback THEN "callback" ELSE "pace"
    /\ UNCHANGED <<parseVars, classifyVars, entries, progress_callback, delay, i,
                   result, browser, closeCalls, cbLog, sleepCount, lastSleep,
                   outcome>>

\* the mutated callback arguments: a 0-based index
CallbackArgsZeroBased(k) == <<k - 1, total, entries[k][1], result>>

\* line 150: the arguments of progress_callback
CallbackArgs(k) == <<k, total, entries[k][1], result>>

\* lines 149-150: await progress_callback(i, total, email, result); it returns,
\* or it raises and the exception is caught at line 157
Callback ==
    /\ pc = "callback"
    /\ cbLog' = Append(cbLog, CallbackArgs(i))
    /\ \/ pc' = "pace" /\ trace' = Append(trace, Event("callback", i))
       \/ pc' = OnLoopException /\ trace' = Append(trace, Event("callback_raised", i))
    /\ UNCHANGED <<parseVars, classifyVars, entries, progress_callback, delay, i,
                   result, results, browser, closeCalls, sleepCount, lastSleep,
                   outcome>>

\* the mutated pacing condition: a sleep after the last entry too
PaceAlways(k) == TRUE

\* line 153: `if i < total`
PaceNeeded(k) == k < total

\* line 155: the argument of asyncio.sleep
SleepArg(d, jitter) == d + jitter

\* lines 153-155: the pacing sleep; it returns, or it raises and the exception
\* is caught at line 157
Pace ==
    /\ pc = "pace"
    /\ IF PaceNeeded(i)
       THEN \E jitter \in Jitters :
              /\ lastSleep' = SleepArg(delay, jitter)
              /\ sleepCount' = sleepCount + 1
              /\ \/ pc' = "for" /\ trace' = Append(trace, Event("sleep", i))
                 \/ pc' = OnLoopException
                    /\ trace' = Append(trace, Event("sleep_raised", i))
       ELSE /\ pc' = "for"
            /\ UNCHANGED <<lastSleep, sleepCount, trace>>
    /\ UNCHANGED <<parseVars, classifyVars, entries, progress_callback, delay, i,
                   result, results, browser, closeCalls, cbLog, outcome>>

\* lines 157-158: except Exception: logger.error
Except ==
    /\ pc = "except"
    /\ trace' = Append(trace, Event("log_error", i))
    /\ pc' = "finally"
    /\ UNCHANGED <<parseVars, classifyVars, entries, progress_callback, delay, i,
                   result, results, browser, closeCalls, cbLog, sleepCount,
                   lastSleep, outcome>>

\* lines 159-160: finally: await browser.close()
Finally ==
    /\ pc = "finally"
    /\ closeCalls' = closeCalls + 1
    /\ browser' = "closed"
    /\ trace' = Append(trace, Event("close", i))
    /\ pc' = "return"
    /\ UNCHANGED <<parseVars, classifyVars, entries, progress_callback, delay, i,
                   result, results, cbLog, sleepCount, lastSleep, outcome>>

\* line 162: return results
ReturnResults ==
    /\ pc = "return"
    /\ outcome' = "returned"
    /\ pc' = "done"
    /\ UNCHANGED <<parseVars, classifyVars, entries, progress_callback, delay, i,
                   result, results, browser, closeCalls, cbLog, sleepCount,
                   lastSleep, trace>>

----------------------------------------------------------------------------
(* Specifications *)

IdleParse == text = <<>> /\ parsed = <<>>
IdleClassify ==
    /\ session = [failAt |-> "none", content |-> {}, success_el |-> 0,
                  pwd |-> "hidden"]
    /\ verdict = Return("pending")
IdleBatch ==
    /\ entries = <<>>
    /\ progress_callback = FALSE
    /\ delay = DefaultDelay
    /\ i = 0
    /\ result = "none"
    /\ results = EmptyResults
    /\ browser = "none"
    /\ closeCalls = 0
    /\ cbLog = <<>>
    /\ sleepCount = 0
    /\ lastSleep = 0
    /\ trace = <<>>
    /\ outcome = "running"

\* parse_entries is about to be called on any bounded text
InitParse ==
    /\ text \in Texts
    /\ parsed = <<>>
    /\ pc = "parse_call"
    /\ IdleClassify
    /\ IdleBatch

NextParse == ParseEntries

SpecParse == InitParse /\ [][NextParse]_vars

\* check_email is about to be called against any scripted session
InitClassify ==
    /\ session \in Sessions
    /\ verdict = Return("pending")
    /\ pc = "classify_call"
    /\ IdleParse
    /\ IdleBatch

NextClassify == CheckEmailCall

SpecClassify == InitClassify /\ [][NextClassify]_vars

\* check_emails_batch is about to run on any bounded entry list
Init ==
    /\ entries \in EntryLists
    /\ progress_callback \in BOOLEAN
    /\ delay \in Delays
    /\ pc = "async_with"
    /\ i = 0
    /\ result = "none"
    /\ results = EmptyResults
    /\ browser = "none"
    /\ closeCalls = 0
    /\ cbLog = <<>>
    /\ sleepCount = 0
    /\ lastSleep = 0
    /\ trace = <<>>
    /\ outcome = "running"
    /\ IdleParse
    /\ IdleClassify

Next ==
    \/ StartPlaywright
    \/ Launch
    \/ NewContext
    \/ AddInitScript
    \/ NewPage
    \/ ForNext
    \/ CheckEmail
    \/ AppendResult
    \/ Callback
    \/ Pace
    \/ Except
    \/ Finally
    \/ ReturnResults

Spec == Init /\ [][Next]_vars

----------------------------------------------------------------------------
(* Claims about parse_entries (SpecParse) *)

\* positions of the line breaks of t, with the two ends of the text
Breaks(t) == {0, Len(t) + 1} \cup {p \in 1..Len(t) : t[p] = "\n"}

\* the input line that starts after break p
LineAfter(t, p) ==
    LET q == CHOOSE b \in Breaks(t) :
                 b > p /\ \A c \in Breaks(t) : c > p => b <= c
    IN  SubSeq(t, p + 1, q - 1)

\* a line without its surrounding whitespace
Trimmed(l) ==
    LET ink == {p \in 1..Len(l) : l[p] \notin {" ", "\n"}} IN
    IF ink = {} THEN <<>>
    ELSE SubSeq(l, CHOOSE a \in ink : \A b \in ink : a <= b,
                   CHOOSE a \in ink : \A b \in ink : a >= b)

\* the part of a line before its first ":", the whole line without one
BeforeColon(l) ==
    LET colons == {p \in 1..Len(l) : l[p] = ":"} IN
    IF colons = {} THEN l
    ELSE SubSeq(l, 1, (CHOOSE a \in colons : \A b \in colons : a <= b) - 1)

HasAt(l) == \E p \in 1..Len(l) : l[p] = "@"

\* a trimmed line that yields an entry
Qualifies(l) == l # <<>> /\ l[1] # "#" /\ HasAt(BeforeColon(l))

\* the breaks that start a qualifying line
EntryStarts(t) ==
    {p \in Breaks(t) \ {Len(t) + 1} : Qualifies(Trimmed(LineAfter(t, p)))}

\* the k-th qualifying line of t, in input order
KthEntryLine(t, k) ==
    LET p == CHOOSE a \in EntryStarts(t) :
                 Cardinality({b \in EntryStarts(t) : b <= a}) = k
    IN  Trimmed(LineAfter(t, p))

\* C7: parse_entries returns, in input-line order and without deduplication,
\* one (address, record) pair for each line that after trimming is non-empty,
\* does not start with "#" and whose part before the first ":" contains "@";
\* every address contains "@" and the record is the full trimmed line.
C7_ParseEntries ==
    pc = "parse_done" =>
        /\ Len(parsed) = Cardinality(EntryStarts(text))
        /\ \A k \in 1..Len(parsed) :
             /\ parsed[k][2] = KthEntryLine(text, k)
             /\ parsed[k][1] = Trimmed(BeforeColon(KthEntryLine(text, k)))
             /\ HasAt(parsed[k][1])

\* two entries are returned, the first with a ":" suffix kept in its record
C7_Witness ==
    /\ pc = "parse_done"
    /\ Len(parsed) = 2
    /\ parsed[1][1] # parsed[1][2]
    /\ \E p \in 1..Len(parsed[1][2]) : parsed[1][2][p] = ":"

----------------------------------------------------------------------------
(* Claims about check_email (SpecClassify) *)

\* the four observations of the page, read off the scripted session
SeesRegisteredText == session.content \cap {"Already Associated", "already been taken"} # {}
SeesSuccessIndicator == session.success_el > 0
SeesPasswordField == session.pwd = "visible"
SeesInvalidText == session.content \cap {"Not a Valid Email", "NOT VALID"} # {}

StepExecuted(step) ==
    step \in StepNames /\ (step = "query_selector_all" => ~SeesRegisteredText)

----------------------------------------------------------------------------
(* Claims about check_emails_batch (Spec) *)

BucketSizes ==
    Len(results.registered) + Len(results.available) + Len(results.invalid)
        + Len(results.error)

\* how often x occurs in the sequence q
Occurrences(q, x) == Cardinality({p \in DOMAIN q : q[p] = x})

AllBuckets ==
    results.registered \o results.available \o results.invalid \o results.error

\* the raw lines of entries 1..k
RECURSIVE LinesUpTo(_)
LinesUpTo(k) == IF k = 0 THEN <<>> ELSE Append(LinesUpTo(k - 1), entries[k][2])

Happened(op, k) == \E p \in DOMAIN trace : trace[p].op = op /\ trace[p].i = k

\* an exception was raised inside the try block while handling entry k
RaisedInLoop(k) == Happened("callback_raised", k) \/ Happened("sleep_raised", k)

LoopCompleted ==
    /\ \E p \in DOMAIN trace : trace[p].op = "close"
    /\ \A p \in DOMAIN trace : trace[p].op # "log_error"

\* the number of entries check_email was called for
Classified == Cardinality({p \in DOMAIN trace : trace[p].op = "check"})

\* C1 as stated: whenever check_emails_batch returns, the four bucket sizes sum
\* to the number of input entries and every entry's raw line was appended to
\* exactly one bucket.
C1_AllEntriesBucketed ==
    outcome = "returned" =>
        /\ BucketSizes = Len(entries)
        /\ \A k \in 1..Len(entries) :
             Occurrences(AllBuckets, entries[k][2])
                 = Occurrences(LinesUpTo(Len(entries)), entries[k][2])

\* C1 amended: whenever check_emails_batch returns, the four bucket sizes sum
\* to the number of entries classified before the loop ended, every one of
\* those entries' raw lines was appended to exactly one bucket, no later
\* entry's line was appended, and when no exception was raised inside the loop
\* that number is the number of input entries.
C1_ClassifiedEntriesBucketed ==
    outcome = "returned" =>
        /\ Classified = i
        /\ BucketSizes = i
        /\ i <= Len(entries)
        /\ \A line \in {e[2] : e \in EntryPool} :
             Occurrences(AllBuckets, line) = Occurrences(LinesUpTo(i), line)
        /\ LoopCompleted => i = Len(entries)

\* a run over two or more entries returned with two non-empty buckets
C1_Witness ==
    /\ outcome = "returned"
    /\ LoopCompleted
    /\ Len(entries) >= 2
    /\ BucketSizes = Len(entries)
    /\ results.registered # <<>>
    /\ results.error # <<>>

\* the first three arguments the k-th invocation of the callback should get
ExpectedProgress(k) == <<k, Len(entries), entries[k][1]>>

\* C2 as stated: in a run with a progress callback supplied, the callback is
\* invoked exactly once per input entry, with index 1, 2, ..., total, the same
\* total each time and the address of the i-th entry at the i-th invocation.
C2_CallbackOncePerEntry ==
    (outcome = "returned" /\ progress_callback) =>
        /\ Len(cbLog) = Len(entries)
        /\ \A k \in 1..Len(cbLog) : SubSeq(cbLog[k], 1, 3) = ExpectedProgress(k)

\* C2 amended: the k-th invocation of the callback has index k, the same
\* total and the address of the k-th input entry, and carries the label
\* check_email returned for it; the callback is invoked for every entry
\* 1..total when no exception is raised inside the loop, and for entries 1..k
\* only when the callback or the pacing sleep raises at entry k.
C2_CallbackPrefix ==
    /\ Len(cbLog) <= Len(entries)
    /\ \A k \in 1..Len(cbLog) :
         /\ SubSeq(cbLog[k], 1, 3) = ExpectedProgress(k)
         /\ \E p \in DOMAIN trace :
              trace[p].op = "check" /\ trace[p].i = k /\ trace[p].label = cbLog[k][4]
    /\ ~progress_callback => cbLog = <<>>
    /\ (outcome = "returned" /\ progress_callback) =>
         /\ LoopCompleted => Len(cbLog) = Len(entries)
         /\ \A k \in 1..Len(entries) : RaisedInLoop(k) => Len(cbLog) = k

\* a run with a callback over two or more entries completed its loop
C2_Witness ==
    /\ outcome = "returned"
    /\ progress_callback
    /\ LoopCompleted
    /\ Len(entries) >= 2
    /\ Len(cbLog) = Len(entries)

SetupFailed ==
    \E p \in DOMAIN trace :
        trace[p].op \in {"start_raised", "launch_raised", "new_context_raised",
                         "add_init_script_raised", "new_page_raised"}

\* C3: if the automation session fails to initialize, check_emails_batch does
\* not raise and returns the result mapping with all four buckets empty.
C3_SetupFailureReturnsEmpty ==
    (pc = "done" /\ SetupFailed) =>
        /\ outcome = "returned"
        /\ results = EmptyResults

\* C4: once the browser has been launched it is closed exactly once before the
\* function exits, on every exit path.
C4_BrowserClosedOnce ==
    (pc = "done" /\ browser # "none") =>
        /\ closeCalls = 1
        /\ browser = "closed"

\* the entry whose callback invocation raised, 0 when none did
CallbackFailedAt ==
    IF \E k \in 1..Len(entries) : Happened("callback_raised", k)
    THEN CHOOSE k \in 1..Len(entries) : Happened("callback_raised", k)
    ELSE 0

\* how often the callback was invoked with index k
InvocationsFor(k) == Cardinality({p \in DOMAIN cbLog : cbLog[p][1] = k})

Max(a, b) == IF a >= b THEN a ELSE b

IsSleep(e) == e.op \in {"sleep", "sleep_raised"}

\* C9: in a run over n entries that completes the loop, a pacing sleep happens
\* after each of entries 1..n-1 (after that entry's bucket append and
\* callback, before the next classification starts) and never after entry n,
\* so there are exactly max(n-1, 0) sleeps; each sleep's duration is at least
\* the configured base delay (base delay plus a jitter in [0.5, 1.5]).
C9_PacingSleeps ==
    /\ sleepCount = Cardinality({p \in DOMAIN trace : IsSleep(trace[p])})
    /\ \A p \in DOMAIN trace :
         IsSleep(trace[p]) =>
             /\ trace[p].i < Len(entries)
             /\ p > 1
             /\ trace[p - 1] =
                  Event(IF progress_callback THEN "callback" ELSE "append", trace[p].i)
             /\ Happened("append", trace[p].i)
             /\ \A q \in 1..(p - 1) : trace[q].i <= trace[p].i
             /\ (trace[p].op = "sleep" /\ p < Len(trace)) =>
                  (trace[p + 1].op = "check" /\ trace[p + 1].i = trace[p].i + 1)
    /\ sleepCount > 0 =>
         /\ lastSleep >= delay
         /\ lastSleep >= delay + JitterMin
         /\ lastSleep <= delay + JitterMax
    /\ (outcome = "returned" /\ LoopCompleted) =>
         /\ sleepCount = Max(Len(entries) - 1, 0)
         /\ \A k \in 1..(Len(entries) - 1) : Happened("sleep", k)
         /\ ~Happened("sleep", Len(entries))

\* a run over three or more entries completed its loop
C9_Witness ==
    /\ outcome = "returned"
    /\ LoopCompleted
    /\ Len(entries) >= 3
    /\ sleepCount = Len(entries) - 1

\* the label check_email returned for entry k
LabelOf(k) ==
    (CHOOSE e \in {trace[p] : p \in DOMAIN trace} : e.op = "check" /\ e.i = k).label

\* the raw lines of the entries among 1..k that were labelled l, in order
RECURSIVE LinesLabelled(_, _)
LinesLabelled(k, l) ==
    IF k = 0 THEN <<>>
    ELSE IF LabelOf(k) = l THEN Append(LinesLabelled(k - 1, l), entries[k][2])
    ELSE LinesLabelled(k - 1, l)

====
